---- MODULE Spec2Model ----
(***************************************************************************)
(* Model of the statsd protocol-unit parser (src/src/statsd.rs).           *)
(*                                                                         *)
(* A byte buffer is a sequence of byte values; the byte at Rust offset i   *)
(* is element i+1 of the sequence.  Option<T> is a sequence of length at   *)
(* most one: None is <<>> and Some(x) is <<x>>.  A (usize, usize) pair is  *)
(* the tuple <<b, e>>.                                                     *)
(***************************************************************************)
EXTENDS Integers, Sequences, FiniteSets

\* ---------------------------------------------------------------- bounds
\* Longest input buffer handed to StatsdPDU::new when only new is run.
MaxLen == 8
\* Longest buffer when units are also renamed: the inputs are enumerated up
\* to this length, and with_prefix_suffix is not applied when its result
\* would be longer.
MaxBuf == 7
\* Longest prefix and longest suffix handed to with_prefix_suffix.
MaxAffix == 1
\* Longest field a composed line  N:V|T|@S|#G  is built from.
MaxField == 1

\* ------------------------------------------------------- byte constants
Pipe == 124
Colon == 58
At == 64
Hash == 35

\* '#', ':', '@', 'a', '|'
Bytes == {Hash, Colon, At, Pipe} \cup {97}

\* ------------------------------------------------------------ Option<T>
None == << >>
Some(x) == << x >>
IsSome(o) == o # None
Unwrap(o) == o[1]

\* &s[a..b] with Rust offsets
Slice(s, a, b) == SubSeq(s, a + 1, b)

SeqsUpTo(S, n) == UNION {[1..k -> S] : k \in 0..n}

\* memchr(needle, haystack): offset of the first occurrence, or None
memchr(needle, haystack) ==
    LET hits == {i \in 1..Len(haystack) : haystack[i] = needle}
    IN  IF hits = {} THEN None
        ELSE Some((CHOOSE i \in hits : \A j \in hits : i <= j) - 1)

\* ------------------------------------------------------------ accessors
name(self) == Slice(self.underlying, 0, self.value_index - 1)

value(self) == Slice(self.underlying, self.value_index, self.type_index - 1)

pdu_type(self) == Slice(self.underlying, self.type_index, self.type_index_end)

tags(self) ==
    IF IsSome(self.tags_index)
    THEN Some(Slice(self.underlying, Unwrap(self.tags_index)[1], Unwrap(self.tags_index)[2]))
    ELSE None

sample_rate(self) ==
    IF IsSome(self.sample_rate_index)
    THEN Some(Slice(self.underlying, Unwrap(self.sample_rate_index)[1],
                    Unwrap(self.sample_rate_index)[2]))
    ELSE None

len(self) == Len(self.underlying)

as_ref(self) == self.underlying

\* ---------------------------------------------------- with_prefix_suffix
\* Variant: only the start of a range is shifted.
shift_range_keep_end(range, offset) ==
    IF IsSome(range)
    THEN Some(<<Unwrap(range)[1] + offset, Unwrap(range)[2]>>)
    ELSE None

shift_range(range, offset) ==
    IF IsSome(range)
    THEN Some(<<Unwrap(range)[1] + offset, Unwrap(range)[2] + offset>>)
    ELSE None

\* Variant: the tags range is carried over without the shift.
with_prefix_suffix_tags_unshifted(self, prefix, suffix) ==
    LET offset == Len(suffix) + Len(prefix)
        buf == prefix \o name(self) \o suffix
                 \o Slice(self.underlying, self.value_index - 1, Len(self.underlying))
    IN  [underlying        |-> buf,
         value_index       |-> self.value_index + offset,
         type_index        |-> self.type_index + offset,
         type_index_end    |-> self.type_index_end + offset,
         sample_rate_index |-> shift_range(self.sample_rate_index, offset),
         tags_index        |-> self.tags_index]

\* Variant: the offset counts the prefix only.
with_prefix_suffix_prefix_only(self, prefix, suffix) ==
    LET offset == Len(prefix)
        buf == prefix \o name(self) \o suffix
                 \o Slice(self.underlying, self.value_index - 1, Len(self.underlying))
    IN  [underlying        |-> buf,
         value_index       |-> self.value_index + offset,
         type_index        |-> self.type_index + offset,
         type_index_end    |-> self.type_index_end + offset,
         sample_rate_index |-> shift_range(self.sample_rate_index, offset),
         tags_index        |-> shift_range(self.tags_index, offset)]

with_prefix_suffix(self, prefix, suffix) ==
    LET offset == Len(suffix) + Len(prefix)
        buf == prefix \o name(self) \o suffix
                 \o Slice(self.underlying, self.value_index - 1, Len(self.underlying))
    IN  [underlying        |-> buf,
         value_index       |-> self.value_index + offset,
         type_index        |-> self.type_index + offset,
         type_index_end    |-> self.type_index_end + offset,
         sample_rate_index |-> shift_range(self.sample_rate_index, offset),
         tags_index        |-> shift_range(self.tags_index, offset)]

\* ------------------------------------------------------------------ new
\* Variant: the walk searches to the end of the line.
value_window_unbounded(line, value_index, type_index) == Slice(line, value_index, Len(line))

\* The search window of the value walk: &line[value_index..type_index].
value_window(line, value_index, type_index) == Slice(line, value_index, type_index)

\* Variant: a walk that found no ':' at all still ends normally.
value_walk_end_lenient(value_index) == Some(value_index)

\* The outcome of the walk when no further ':' is found.
value_walk_end(value_index) ==
    IF value_index <= 0 THEN None ELSE Some(value_index)

\* Variant: the walk stops at the first ':'.
value_walk_first(line, type_index, value_index) ==
    LET value_check_index == memchr(Colon, Slice(line, value_index, type_index))
    IN  IF value_check_index = None
        THEN None
        ELSE Some(Unwrap(value_check_index) + value_index + 1)

\* First loop of new: walk to the last ':' before the type separator.
RECURSIVE value_walk(_, _, _)
value_walk(line, type_index, value_index) ==
    LET value_check_index == memchr(Colon, value_window(line, value_index, type_index))
    IN  IF value_check_index = None
        THEN value_walk_end(value_index)
        ELSE value_walk(line, type_index, Unwrap(value_check_index) + value_index + 1)

\* Variant: the scan stops one byte later.
scan_break_late(x, length) == x + 1 >= length

\* Guard of the second match arm:  Some(x) if x + 2 >= length => break
scan_break(x, length) == x + 2 >= length

\* Guard and body of the third match arm:  Some(x) if x < type_index_end
set_type_end(st, x) ==
    IF x < st.type_index_end THEN [st EXCEPT !.type_index_end = x] ELSE st

retarget(range, x) ==
    IF IsSome(range) THEN Some(<<Unwrap(range)[1], x>>) ELSE None

\* Variant: a second '@' marker replaces the first.
at_arm_nodup(st, x, length) ==
    Some([st EXCEPT !.sample_rate_index = Some(<<x + 2, length>>),
                    !.tags_index = retarget(st.tags_index, x)])

\* Variant: the open tags range is not closed at the '@' marker.
at_arm_notrim(st, x, length) ==
    IF IsSome(st.sample_rate_index)
    THEN None
    ELSE Some([st EXCEPT !.sample_rate_index = Some(<<x + 2, length>>)])

\* Arm b'@'
at_arm(st, x, length) ==
    IF IsSome(st.sample_rate_index)
    THEN None
    ELSE Some([st EXCEPT !.sample_rate_index = Some(<<x + 2, length>>),
                         !.tags_index = retarget(st.tags_index, x)])

\* Variant: the open sample-rate range is not closed at the '#' marker.
hash_arm_notrim(st, x, length) ==
    IF IsSome(st.tags_index)
    THEN None
    ELSE Some([st EXCEPT !.tags_index = Some(<<x + 2, length>>)])

\* Arm b'#'
hash_arm(st, x, length) ==
    IF IsSome(st.tags_index)
    THEN None
    ELSE Some([st EXCEPT !.tags_index = Some(<<x + 2, length>>),
                         !.sample_rate_index = retarget(st.sample_rate_index, x)])

\* Arm _
other_arm(st, x, length) == None

\* match line[index.unwrap() + 1]
marker_match(byte, st, x, length) ==
    IF byte = At THEN at_arm(st, x, length)
    ELSE IF byte = Hash THEN hash_arm(st, x, length)
    ELSE other_arm(st, x, length)

\* Second loop of new: scan the '|' bytes from type_index on.
RECURSIVE marker_scan(_, _)
marker_scan(line, st) ==
    LET length == Len(line)
        found == memchr(Pipe, Slice(line, st.scan_index, length))
    IN  IF found = None
        THEN Some(st)
        ELSE LET x == Unwrap(found) + st.scan_index
             IN  IF scan_break(x, length)
                 THEN Some(st)
                 ELSE LET arm == marker_match(line[x + 2], set_type_end(st, x), x, length)
                      IN  IF arm = None
                          THEN None
                          ELSE marker_scan(line, [Unwrap(arm) EXCEPT !.scan_index = x + 1])

new(line) ==
    LET length == Len(line)
        first_pipe == memchr(Pipe, line)
    IN  IF first_pipe = None
        THEN None
        ELSE LET type_index == Unwrap(first_pipe) + 1
                 walked == value_walk(line, type_index, 0)
             IN  IF walked = None
                 THEN None
                 ELSE LET scanned == marker_scan(line,
                                       [type_index_end    |-> length,
                                        sample_rate_index |-> None,
                                        tags_index        |-> None,
                                        scan_index        |-> type_index])
                      IN  IF scanned = None
                          THEN None
                          ELSE Some([underlying        |-> line,
                                     value_index       |-> Unwrap(walked),
                                     type_index        |-> type_index,
                                     type_index_end    |-> Unwrap(scanned).type_index_end,
                                     sample_rate_index |-> Unwrap(scanned).sample_rate_index,
                                     tags_index        |-> Unwrap(scanned).tags_index])

\* ---------------------------------------------------------------- state
VARIABLES
    input,    \* the buffer the caller hands to new
    unit,     \* Option<StatsdPDU>: the unit currently held
    base,     \* Option<StatsdPDU>: the unit the last with_prefix_suffix was called on
    pre,      \* prefix argument of the last with_prefix_suffix call
    suf,      \* suffix argument of the last with_prefix_suffix call
    op,       \* "start", "new" or "with_prefix_suffix": the last operation run
    fields    \* the fields a composed input was built from, or None

vars == <<input, unit, base, pre, suf, op, fields>>

Affixes == SeqsUpTo({Colon, Pipe, 97}, MaxAffix)

Init ==
    /\ \E k \in 0..MaxBuf : input \in [1..k -> Bytes]
    /\ unit = None
    /\ base = None
    /\ pre = << >>
    /\ suf = << >>
    /\ op = "start"
    /\ fields = None

\* let pdu = StatsdPDU::new(line)
New ==
    /\ op = "start"
    /\ unit' = new(input)
    /\ op' = "new"
    /\ UNCHANGED <<input, base, pre, suf, fields>>

\* let pdu = pdu.with_prefix_suffix(prefix, suffix)
WithPrefixSuffix ==
    /\ op \in {"new", "with_prefix_suffix"}
    /\ IsSome(unit)
    /\ \E prefix \in Affixes, suffix \in Affixes :
          /\ len(Unwrap(unit)) + Len(prefix) + Len(suffix) <= MaxBuf
          /\ unit' = Some(with_prefix_suffix(Unwrap(unit), prefix, suffix))
          /\ base' = unit
          /\ pre' = prefix
          /\ suf' = suffix
    /\ op' = "with_prefix_suffix"
    /\ UNCHANGED <<input, fields>>

Next == New \/ WithPrefixSuffix

Spec == Init /\ [][Next]_vars

\* --------------------------------------------- new alone, longer inputs
InitNew ==
    /\ \E k \in 0..MaxLen : input \in [1..k -> Bytes]
    /\ unit = None
    /\ base = None
    /\ pre = << >>
    /\ suf = << >>
    /\ op = "start"
    /\ fields = None

NextNew == New

SpecNew == InitNew /\ [][NextNew]_vars

\* ------------------------------------------- composed inputs (two orders)
\* N:V|T|@S|#G
compose_at_hash(f) ==
    f.n \o <<Colon>> \o f.v \o <<Pipe>> \o f.t \o <<Pipe, At>> \o f.s \o <<Pipe, Hash>> \o f.g

\* N:V|T|#G|@S
compose_hash_at(f) ==
    f.n \o <<Colon>> \o f.v \o <<Pipe>> \o f.t \o <<Pipe, Hash>> \o f.g \o <<Pipe, At>> \o f.s

FieldSets ==
    [n : SeqsUpTo({97, Colon}, MaxField),
     v : SeqsUpTo({97, At}, MaxField),
     t : SeqsUpTo({97, Colon}, MaxField),
     s : SeqsUpTo({97, Hash, At}, MaxField),
     g : SeqsUpTo({97, Hash, At}, MaxField)]

InitOrder ==
    /\ \E f \in FieldSets :
          /\ fields = Some(f)
          /\ input \in {compose_at_hash(f), compose_hash_at(f)}
    /\ unit = None
    /\ base = None
    /\ pre = << >>
    /\ suf = << >>
    /\ op = "start"

SpecOrder == InitOrder /\ [][Next]_vars

\* ============================================================== properties
Parsed == op = "new" /\ IsSome(unit)
Renamed == op = "with_prefix_suffix" /\ IsSome(unit) /\ IsSome(base)

Has(s, b) == \E i \in 1..Len(s) : s[i] = b

\* Offsets (Rust, 0-based) of the bytes equal to b in s.
OffsetsOf(s, b) == {i - 1 : i \in {j \in 1..Len(s) : s[j] = b}}
MinOf(S) == CHOOSE x \in S : \A y \in S : x <= y
MaxOf(S) == CHOOSE x \in S : \A y \in S : x >= y

\* Offset of the first '|' of s (s contains one).
FirstPipe(s) == MinOf(OffsetsOf(s, Pipe))
\* Offsets of the ':' bytes before the first '|'.
ColonsBeforePipe(s) == {c \in OffsetsOf(s, Colon) : c < FirstPipe(s)}

RangeOK(r, n) ==
    IsSome(r) => /\ 0 <= Unwrap(r)[1]
                 /\ Unwrap(r)[1] <= Unwrap(r)[2]
                 /\ Unwrap(r)[2] <= n

\* The invariants of the data model on a unit u.
OffsetsOK(u) ==
    /\ 0 < u.value_index
    /\ u.value_index <= u.type_index - 1
    /\ u.type_index - 1 <= u.type_index_end
    /\ u.type_index_end <= Len(u.underlying)
    /\ u.underlying[u.value_index] = Colon
    /\ RangeOK(u.sample_rate_index, Len(u.underlying))
    /\ RangeOK(u.tags_index, Len(u.underlying))

\* C1: whenever new succeeds, 0 < value_index <= type_index - 1 <=
\* type_index_end <= length, the byte at value_index - 1 is ':', the byte at
\* type_index - 1 is '|', and each present optional range has
\* start <= end <= length.
C1_OffsetsValid ==
    Parsed => /\ OffsetsOK(Unwrap(unit))
              /\ Unwrap(unit).underlying = input
              /\ input[Unwrap(unit).type_index] = Pipe

C1_Witness ==
    /\ Parsed
    /\ IsSome(Unwrap(unit).sample_rate_index)
    /\ IsSome(Unwrap(unit).tags_index)
    /\ Unwrap(unit).value_index > 1

\* C2: whenever new succeeds, the value delimiter is the last ':' before
\* the first '|': name is everything before it, value is what lies strictly
\* between it and the first '|', value holds no ':' and no '|', and name
\* holds no '|'.
C2_LastColonDelimits ==
    Parsed =>
        /\ Has(input, Pipe)
        /\ ColonsBeforePipe(input) # {}
        /\ LET d == MaxOf(ColonsBeforePipe(input))
               u == Unwrap(unit)
           IN  /\ name(u) = Slice(input, 0, d)
               /\ value(u) = Slice(input, d + 1, FirstPipe(input))
               /\ ~Has(value(u), Colon)
               /\ ~Has(value(u), Pipe)
               /\ ~Has(name(u), Pipe)

C2_Witness ==
    /\ Parsed
    /\ Has(name(Unwrap(unit)), Colon)
    /\ Len(value(Unwrap(unit))) > 0

\* Offsets x after the first '|' with '|' at x and the byte k at x + 1.
PipeFollowedBy(s, k) ==
    {x \in OffsetsOf(s, Pipe) : x > FirstPipe(s) /\ x + 2 <= Len(s) /\ s[x + 2] = k}
\* The same, with at least two bytes after the '|'.
FullMarkers(s, k) == {x \in PipeFollowedBy(s, k) : x + 2 < Len(s)}

\* C3 as stated: new fails on every input holding, after the type separator,
\* two '|' immediately followed by '@' or two '|' immediately followed by '#'.
C3_Original ==
    (op = "new" /\ Has(input, Pipe)
       /\ (Cardinality(PipeFollowedBy(input, At)) >= 2
            \/ Cardinality(PipeFollowedBy(input, Hash)) >= 2))
    => unit = None

\* C3 amended: new fails on every input holding, after the type separator,
\* two "|@" or two "|#" whose '|' has at least two bytes after it.
C3_DuplicateMarkerFails ==
    (op = "new" /\ Has(input, Pipe)
       /\ (Cardinality(FullMarkers(input, At)) >= 2
            \/ Cardinality(FullMarkers(input, Hash)) >= 2))
    => unit = None

C3_Witness ==
    /\ op = "new"
    /\ Has(input, Pipe)
    /\ ColonsBeforePipe(input) # {}
    /\ Cardinality(FullMarkers(input, At)) >= 2
    /\ FullMarkers(input, Hash) = {}
    /\ unit = None

\* The accessors of the held unit return the fields the input was built from.
FieldsRecovered ==
    /\ IsSome(unit)
    /\ LET u == Unwrap(unit)
           f == Unwrap(fields)
       IN  /\ name(u) = f.n
           /\ value(u) = f.v
           /\ pdu_type(u) = f.t
           /\ tags(u) = Some(f.g)
           /\ sample_rate(u) = Some(f.s)

\* C4 as stated: for all N, V, T, S, G (no '|', V without ':') new succeeds
\* on N:V|T|@S|#G and on N:V|T|#G|@S and both give name N, value V, type T,
\* tags G and sample rate S.
C4_Original ==
    (op = "new" /\ IsSome(fields)) => FieldsRecovered

\* C4 amended: the same for non-empty S and G.
C4_OrderIndependent ==
    (op = "new" /\ IsSome(fields)
       /\ Unwrap(fields).s # << >> /\ Unwrap(fields).g # << >>)
    => FieldsRecovered

C4_Witness ==
    /\ op = "new"
    /\ IsSome(fields)
    /\ Unwrap(fields).s # << >>
    /\ Unwrap(fields).g # << >>
    /\ Unwrap(fields).n # << >>
    /\ input = compose_hash_at(Unwrap(fields))
    /\ IsSome(unit)

\* C5: with_prefix_suffix(u, p, s) has the buffer p ++ name(u) ++ s ++
\* (u's buffer from the ':' at value_index - 1 on), its length is
\* len(u) + len(p) + len(s), its name is p ++ name(u) ++ s, and its value,
\* type, tags and sample rate are those of u.
C5_RenameRewritesNameOnly ==
    Renamed =>
        LET u == Unwrap(base)
            r == Unwrap(unit)
        IN  /\ as_ref(r) = pre \o name(u) \o suf
                              \o Slice(as_ref(u), u.value_index - 1, len(u))
            /\ len(r) = len(u) + Len(pre) + Len(suf)
            /\ name(r) = pre \o name(u) \o suf
            /\ value(r) = value(u)
            /\ pdu_type(r) = pdu_type(u)
            /\ tags(r) = tags(u)
            /\ sample_rate(r) = sample_rate(u)

C5_Witness ==
    /\ Renamed
    /\ pre # << >>
    /\ suf # << >>
    /\ IsSome(tags(Unwrap(base)))

\* C6: new fails on the empty buffer, on every buffer without '|', and on
\* every buffer with no ':' before its first '|'.
C6_MissingSeparatorFails ==
    (op = "new" /\ (input = << >> \/ ~Has(input, Pipe) \/ ColonsBeforePipe(input) = {}))
    => unit = None

C6_Witness ==
    /\ op = "new"
    /\ Has(input, Pipe)
    /\ FirstPipe(input) > 0
    /\ ColonsBeforePipe(input) = {}
    /\ unit = None

\* C7: every unit obtained from a parsed unit by with_prefix_suffix calls
\* satisfies the data-model invariants.
C7_RenameKeepsInvariants ==
    op = "with_prefix_suffix" => (IsSome(unit) /\ OffsetsOK(Unwrap(unit)))

C7_Witness ==
    /\ Renamed
    /\ Unwrap(base).underlying # input
    /\ pre # << >>
    /\ IsSome(Unwrap(unit).sample_rate_index)

\* Offsets of the '|' bytes at or after type_index that have at least two
\* bytes after them: the markers of the scan.
Markers(s) == {x \in OffsetsOf(s, Pipe) : x > FirstPipe(s) /\ x + 2 < Len(s)}
\* Where the field opened by the marker at x ends.
FieldEnd(s, x) ==
    IF \E y \in Markers(s) : y > x
    THEN MinOf({y \in Markers(s) : y > x})
    ELSE Len(s)
\* The range the markers of kind k give.
ExpectedRange(s, k) ==
    IF \E x \in Markers(s) : s[x + 2] = k
    THEN LET x == CHOOSE y \in Markers(s) : s[y + 2] = k
         IN  Some(<<x + 2, FieldEnd(s, x)>>)
    ELSE None

\* C8: whenever new succeeds, each optional range starts 2 bytes after its
\* marker's '|' and ends at the next marker's '|', or at the buffer length
\* if it is the last, whichever of '@' and '#' comes first; two present
\* ranges are disjoint and both start after type_index_end.
C8_RangesEndAtNextMarker ==
    Parsed =>
        LET u == Unwrap(unit)
            sr == u.sample_rate_index
            tg == u.tags_index
        IN  /\ sr = ExpectedRange(input, At)
            /\ tg = ExpectedRange(input, Hash)
            /\ IsSome(sr) => Unwrap(sr)[1] > u.type_index_end
            /\ IsSome(tg) => Unwrap(tg)[1] > u.type_index_end
            /\ (IsSome(sr) /\ IsSome(tg)) =>
                  \/ Unwrap(sr)[2] < Unwrap(tg)[1]
                  \/ Unwrap(tg)[2] < Unwrap(sr)[1]

C8_Witness ==
    /\ Parsed
    /\ IsSome(Unwrap(unit).sample_rate_index)
    /\ IsSome(Unwrap(unit).tags_index)
    /\ Unwrap(Unwrap(unit).tags_index)[2] < Unwrap(Unwrap(unit).sample_rate_index)[1]

\* The '|' bytes the scan can meet: those at or after type_index.
ScanPipes(s) == {x \in OffsetsOf(s, Pipe) : x > FirstPipe(s)}
Short(s, x) == x + 2 >= Len(s)
RangeStart(r) == IF IsSome(r) THEN {Unwrap(r)[1]} ELSE {}
RangeEnd(r) == IF IsSome(r) THEN {Unwrap(r)[2]} ELSE {}

\* C9: in the marker scan a '|' with fewer than 2 bytes after it stops the
\* scan without failure, gets no range and does not become type_index_end;
\* any other '|' must be followed by '@' or '#', else the parse fails.
C9_ScanHandlesEveryPipe ==
    (op = "new" /\ Has(input, Pipe) /\ ColonsBeforePipe(input) # {}) =>
        /\ (\E x \in ScanPipes(input) :
               ~Short(input, x) /\ input[x + 2] \notin {At, Hash})
             => unit = None
        /\ (/\ \A x \in ScanPipes(input) :
                  Short(input, x) \/ input[x + 2] \in {At, Hash}
            /\ Cardinality(FullMarkers(input, At)) <= 1
            /\ Cardinality(FullMarkers(input, Hash)) <= 1)
             => IsSome(unit)
        /\ IsSome(unit) =>
             \A x \in ScanPipes(input) :
                IF Short(input, x)
                THEN LET u == Unwrap(unit)
                     IN  /\ u.type_index_end # x
                         /\ x + 2 \notin RangeStart(u.sample_rate_index)
                                           \cup RangeStart(u.tags_index)
                         /\ x \notin RangeEnd(u.sample_rate_index)
                                       \cup RangeEnd(u.tags_index)
                ELSE input[x + 2] \in {At, Hash}

C9_Witness ==
    /\ Parsed
    /\ \E x \in ScanPipes(input) :
          Short(input, x) /\ x + 2 = Len(input) /\ input[x + 2] = At
    /\ IsSome(Unwrap(unit).tags_index)

\* C10: for a parsed unit u and p, s without '|', parsing the buffer of
\* with_prefix_suffix(u, p, s) succeeds and yields the offsets and ranges
\* the renamed unit carries.
C10_ReparseAgrees ==
    (Renamed /\ base = new(as_ref(Unwrap(base)))
       /\ ~Has(pre, Pipe) /\ ~Has(suf, Pipe))
    => new(as_ref(Unwrap(unit))) = unit

C10_Witness ==
    /\ Renamed
    /\ base = new(as_ref(Unwrap(base)))
    /\ Has(pre, Colon)
    /\ suf # << >>
    /\ ~Has(suf, Pipe)
    /\ IsSome(Unwrap(unit).sample_rate_index)
    /\ new(as_ref(Unwrap(unit))) = unit

====
